---- MODULE Spec2Model ----
(***************************************************************************)
(* State-machine model of the blogging platform's engagement and           *)
(* notification core: the BlogPost lifecycle (blog/models.py), the REST    *)
(* handlers of blog/views.py with the permission classes of                *)
(* blog/permissions.py and the validation of blog/serializers.py.          *)
(*                                                                         *)
(* Every request is one atomic step (a request-per-action server with a    *)
(* transactional store).  The database tables are the variables; `resp`    *)
(* is the request just served together with the HTTP status it returned.   *)
(*                                                                         *)
(* The tables depend on one another only through the handlers that read    *)
(* them, so the requests are composed into one specification per           *)
(* subsystem: Spec (publishing and fan-out), SpecLikes, SpecRatings,       *)
(* SpecSubscriptions and SpecFrame (the lifecycle requests with one writer *)
(* per other table).                                                       *)
(***************************************************************************)
EXTENDS Integers, Sequences, FiniteSets, Bags, TLC

\* ---------------------------------------------------------------- universe

\* Bounds of the model: the Notification rows stored, the readings of the
\* clock, the views counted and the Comment rows stored.
MaxNotifs == 2
MaxTime == 2
MaxViews == 1
MaxComments == 2

\* Registered users (django.contrib.auth User rows) and the anonymous caller.
Users == {"u1", "u2", "u3"}
\* The users whose requests the specifications follow.
Callers == {"u1", "u2"}
Anon == "anon"
Actors == Callers \cup {Anon}
NoUser == "nobody"

Categories == {"c1"}
NoCategory == "none"

\* NULL of a DateTimeField; the clock reads 1, 2, ...
NoDate == 0
\* the post of a request that names none, the parent of a top-level comment
NoPost == 0
NoComment == 0

\* HTTP status codes of the responses.
HTTP_200_OK == 200
HTTP_201_CREATED == 201
HTTP_204_NO_CONTENT == 204
HTTP_302_FOUND == 302
HTTP_400_BAD_REQUEST == 400
HTTP_401_UNAUTHORIZED == 401
HTTP_403_FORBIDDEN == 403
HTTP_404_NOT_FOUND == 404
\* an exception no handler catches (IntegrityError of a unique constraint)
HTTP_500_INTERNAL_SERVER_ERROR == 500

STATUS_CHOICES == {"draft", "published", "archived"}
SAFE_METHODS == {"GET", "HEAD", "OPTIONS"}

VARIABLES
    posts,      \* BlogPost table: sequence of rows, the id is the index
    likes,      \* PostLike table: number of rows per <<post, user>>
    ratings,    \* PostRating table: the rating values of the rows per <<post, user>>
    comments,   \* Comment table: sequence of rows, the id is the index
    subs,       \* Subscription table: set of rows
    notifs,     \* Notification table: bag of rows
    now,        \* the next reading of timezone.now()
    resp,       \* the request just served and its HTTP status
    inflight    \* per worker, the request it is serving between its read of
                \* the database and its write, with what it has read

vars == <<posts, likes, ratings, comments, subs, notifs, now, resp, inflight>>

\* The workers that serve requests side by side, and a worker between requests.
Workers == {"w1", "w2"}
Idle == [op |-> "idle"]

\* The model follows one BlogPost row: a handler reads and writes only the
\* post its request names and the rows that refer to it.
PostIds == {1}
Pairs == PostIds \X Users

\* ------------------------------------------------------------------ models

\* (variant) publish that forgets the timestamp
BlogPost_publish_no_date(post, t) ==
    IF post.status = "draft"
    THEN [post EXCEPT !.status = "published"]
    ELSE post

\* (variant) publish guarded like the view: anything not yet published
BlogPost_publish_not_published(post, t) ==
    IF post.status # "published"
    THEN [post EXCEPT !.status = "published", !.published_date = t]
    ELSE post

\* (variant) publish that keeps the date of the first publication
BlogPost_publish_keeps_first_date(post, t) ==
    IF post.status = "draft"
    THEN [post EXCEPT !.status = "published",
                      !.published_date = IF @ = NoDate THEN t ELSE @]
    ELSE post

\* BlogPost.publish: only a draft is published, and stamped with the time.
BlogPost_publish(post, t) ==
    IF post.status = "draft"
    THEN [post EXCEPT !.status = "published", !.published_date = t]
    ELSE post

\* (variant) unpublish that also clears the publication date
BlogPost_unpublish_clears_date(post) ==
    IF post.status = "published"
    THEN [post EXCEPT !.status = "draft", !.published_date = NoDate]
    ELSE post

\* BlogPost.unpublish: only a published post goes back to draft.
BlogPost_unpublish(post) ==
    IF post.status = "published"
    THEN [post EXCEPT !.status = "draft"]
    ELSE post

\* BlogPost.archive: unconditional.
BlogPost_archive(post) == [post EXCEPT !.status = "archived"]

\* BlogPost.increment_views
BlogPost_increment_views(post) == [post EXCEPT !.views_count = @ + 1]

RECURSIVE SumOver(_, _)
SumOver(f, S) ==
    IF S = {} THEN 0
    ELSE LET x == CHOOSE y \in S : TRUE IN f[x] + SumOver(f, S \ {x})

\* BlogPost.likes_count: the number of PostLike rows of the post.
likes_count(p) == SumOver([u \in Users |-> likes[<<p, u>>]], Users)

RECURSIVE SumSeq(_)
SumSeq(q) == IF q = <<>> THEN 0 ELSE Head(q) + SumSeq(Tail(q))

\* BlogPost.ratings_count: the number of PostRating rows of the post.
ratings_count(p) == SumOver([u \in Users |-> Len(ratings[<<p, u>>])], Users)

\* The sum of the ratings of the post, which Avg('rating') divides by their
\* number.
ratings_total(p) == SumOver([u \in Users |-> SumSeq(ratings[<<p, u>>])], Users)

\* round(total / n, 2), in hundredths: the nearest hundredth, and of two
\* equally near the even one.
round_2(total, n) ==
    LET q == (100 * total) \div n
        r == (100 * total) % n
    IN IF 2 * r < n THEN q
       ELSE IF 2 * r > n THEN q + 1
       ELSE IF q % 2 = 0 THEN q ELSE q + 1

\* (variant) the average cut off after two decimals
average_rating_truncated(p) ==
    IF ratings_count(p) = 0 \/ ratings_total(p) = 0
    THEN 0
    ELSE (100 * ratings_total(p)) \div ratings_count(p)

\* BlogPost.average_rating, in hundredths: the rounded average of the rows,
\* and 0 when the average is None (no rows) or zero.
average_rating(p) ==
    IF ratings_count(p) = 0 \/ ratings_total(p) = 0
    THEN 0
    ELSE round_2(ratings_total(p), ratings_count(p))

\* Notification.objects.create(...): a row, unread.
Notification(user, type, post, sender, message) ==
    [user |-> user, notification_type |-> type, post |-> post,
     sender |-> sender, message |-> message, is_read |-> FALSE]

\* -------------------------------------------------------------- permissions

\* permissions.IsAuthenticatedOrReadOnly.has_permission
IsAuthenticatedOrReadOnly(method, actor) ==
    method \in SAFE_METHODS \/ actor # Anon

\* permissions.IsAuthenticated.has_permission
IsAuthenticated(actor) == actor # Anon

\* IsAuthorOrReadOnly.has_object_permission
IsAuthorOrReadOnly(method, actor, obj) ==
    method \in SAFE_METHODS \/ obj.author = actor

\* A request refused for want of credentials is answered 401 or 403: which
\* one is decided by the first authentication class of the deployment.
UnauthenticatedCodes == {HTTP_401_UNAUTHORIZED, HTTP_403_FORBIDDEN}

\* BlogPostViewSet.get_queryset: anonymous callers see published posts only.
BlogPostViewSet_get_queryset(actor) ==
    IF actor = Anon
    THEN {p \in DOMAIN posts : posts[p].status = "published"}
    ELSE DOMAIN posts

Response(op, actor, p, code) ==
    [op |-> op, actor |-> actor, post |-> p, code |-> code]

\* What BlogPostViewSet answers to a detail request before the handler body
\* runs, 0 when get_object() returns the post: the view permissions are
\* checked first, then get_object() looks the post up in get_queryset() and
\* checks the object permissions (permission_classes holds for every action).
BlogPostViewSet_get_object(method, actor, p) ==
    IF ~IsAuthenticatedOrReadOnly(method, actor) THEN HTTP_401_UNAUTHORIZED
    ELSE IF p \notin BlogPostViewSet_get_queryset(actor) THEN HTTP_404_NOT_FOUND
    ELSE IF ~IsAuthorOrReadOnly(method, actor, posts[p]) THEN HTTP_403_FORBIDDEN
    ELSE 0

\* The step of a request that is refused: the response, and nothing stored.
Refused(op, actor, p, code) ==
    /\ \E c \in (IF code = HTTP_401_UNAUTHORIZED
                 THEN UnauthenticatedCodes ELSE {code}) :
          resp' = Response(op, actor, p, c)
    /\ UNCHANGED <<posts, likes, ratings, comments, subs, notifs, now, inflight>>

\* ------------------------------------------------------------------ fan-out

\* (variant) fan-out that tells every subscriber once: a category subscriber
\* who is an author subscriber too gets no second row
notify_subscribers_once_per_user(p) ==
    LET post == posts[p]
        author_subscribers ==
            {s.subscriber : s \in {x \in subs : /\ x.author = post.author
                                                /\ x.subscription_type = "author"
                                                /\ x.is_active}}
        category_subscribers ==
            IF post.category # NoCategory
            THEN {s.subscriber : s \in {x \in subs : /\ x.category = post.category
                                                    /\ x.subscription_type = "category"
                                                    /\ x.is_active}}
            ELSE {}
    IN SetToBag({Notification(u, "new_post", p, post.author, "published a new post") :
                    u \in author_subscribers})
         (+) SetToBag({Notification(u, "new_post", p, post.author, "new post in category") :
                    u \in category_subscribers \ author_subscribers})

\* BlogPostViewSet._notify_subscribers: one new_post row per active author
\* subscription to the post's author and, when the post has a category, one
\* per active category subscription to it.
notify_subscribers(p) ==
    LET post == posts[p]
        author_subscriptions ==
            {s \in subs : /\ s.author = post.author
                          /\ s.subscription_type = "author"
                          /\ s.is_active}
        category_subscriptions ==
            IF post.category # NoCategory
            THEN {s \in subs : /\ s.category = post.category
                               /\ s.subscription_type = "category"
                               /\ s.is_active}
            ELSE {}
        row(s, message) ==
            Notification(s.subscriber, "new_post", p, post.author, message)
        RECURSIVE emit(_, _)
        emit(S, message) ==
            IF S = {} THEN EmptyBag
            ELSE LET s == CHOOSE x \in S : TRUE
                 IN SetToBag({row(s, message)}) (+) emit(S \ {s}, message)
    IN emit(author_subscriptions, "published a new post")
         (+) emit(category_subscriptions, "new post in category")

\* (variant) the engagement notification without the self-action test
author_notification_always(p, actor, type, message) ==
    SetToBag({Notification(posts[p].author, type, p, actor, message)})

\* The notification of a like, a rating or a comment: one row for the post's
\* author, unless the author is the one who acted.
author_notification(p, actor, type, message) ==
    IF posts[p].author # actor
    THEN SetToBag({Notification(posts[p].author, type, p, actor, message)})
    ELSE EmptyBag

\* ---------------------------------------------------------------- creation

\* BlogPostSerializer.validate_title / validate_content on the lengths sent.
MinTitleLength == 5
MinContentLength == 20

validate_title(title_len) == title_len >= MinTitleLength
validate_content(content_len) == content_len >= MinContentLength

\* The lengths a client sends: the shortest accepted, and one below it.
TitleLengths == {MinTitleLength - 1, MinTitleLength}
ContentLengths == {MinContentLength - 1, MinContentLength}

NewPost(author, title_len, category, status) ==
    [author |-> author, title_len |-> title_len, category |-> category,
     status |-> status, published_date |-> NoDate, views_count |-> 0]

\* POST /api/posts/ : BlogPostViewSet.create with perform_create.  `status`
\* and `category` are writable fields of BlogPostSerializer, published_date
\* and views_count are read-only, and the author is the caller.
BlogPostViewSet_create(actor, title_len, content_len, category, status) ==
    IF ~IsAuthenticatedOrReadOnly("POST", actor)
    THEN Refused("post_create", actor, NoPost, HTTP_401_UNAUTHORIZED)
    ELSE IF ~(validate_title(title_len) /\ validate_content(content_len))
    THEN Refused("post_create", actor, NoPost, HTTP_400_BAD_REQUEST)
    ELSE /\ Len(posts) < Cardinality(PostIds)
         /\ posts' = Append(posts, NewPost(actor, title_len, category, status))
         /\ resp' = Response("post_create", actor, Len(posts) + 1, HTTP_201_CREATED)
         /\ UNCHANGED <<likes, ratings, comments, subs, notifs, now, inflight>>

\* PUT /api/posts/{p}/ : BlogPostViewSet.update through BlogPostSerializer,
\* for the author only; title, category and status are written as sent.
BlogPostViewSet_update(p, actor, title_len, content_len, category, status) ==
    LET pre == BlogPostViewSet_get_object("PUT", actor, p) IN
    IF pre # 0 THEN Refused("post_update", actor, p, pre)
    ELSE IF ~(validate_title(title_len) /\ validate_content(content_len))
    THEN Refused("post_update", actor, p, HTTP_400_BAD_REQUEST)
    ELSE /\ posts' = [posts EXCEPT ![p].title_len = title_len,
                                   ![p].category = category,
                                   ![p].status = status]
         /\ resp' = Response("post_update", actor, p, HTTP_200_OK)
         /\ UNCHANGED <<likes, ratings, comments, subs, notifs, now, inflight>>

\* POST /create/ : post_create_view stores the form as it is sent
\* (BlogPost.objects.create, no serializer) and redirects to the post; a
\* visitor who is not logged in is redirected to the login page.
post_create_view(actor, title_len, content_len, category, status) ==
    IF actor = Anon
    THEN Refused("page_create", actor, NoPost, HTTP_302_FOUND)
    ELSE /\ Len(posts) < Cardinality(PostIds)
         /\ posts' = Append(posts, NewPost(actor, title_len, category, status))
         /\ resp' = Response("page_create", actor, Len(posts) + 1, HTTP_302_FOUND)
         /\ UNCHANGED <<likes, ratings, comments, subs, notifs, now, inflight>>

\* POST /edit/{slug}/ : post_edit_view finds the post among the caller's own,
\* assigns title, content, category and status from the form and saves it.
post_edit_view(p, actor, title_len, content_len, category, status) ==
    IF actor = Anon
    THEN Refused("page_edit", actor, NoPost, HTTP_302_FOUND)
    ELSE IF p \notin DOMAIN posts \/ posts[p].author # actor
    THEN Refused("page_edit", actor, p, HTTP_404_NOT_FOUND)
    ELSE /\ posts' = [posts EXCEPT ![p].title_len = title_len,
                                   ![p].category = category,
                                   ![p].status = status]
         /\ resp' = Response("page_edit", actor, p, HTTP_302_FOUND)
         /\ UNCHANGED <<likes, ratings, comments, subs, notifs, now, inflight>>

\* GET /api/posts/{p}/ : BlogPostViewSet.retrieve counts the view.
BlogPostViewSet_retrieve(p, actor) ==
    LET pre == BlogPostViewSet_get_object("GET", actor, p) IN
    IF pre # 0 THEN Refused("retrieve", actor, p, pre)
    ELSE /\ posts[p].views_count < MaxViews
         /\ posts' = [posts EXCEPT ![p] = BlogPost_increment_views(@)]
         /\ resp' = Response("retrieve", actor, p, HTTP_200_OK)
         /\ UNCHANGED <<likes, ratings, comments, subs, notifs, now, inflight>>

\* GET /posts/{slug}/ : post_detail_view finds the post by its slug whatever
\* its status and counts the view unless the viewer is the post's author.
post_detail_view(p, actor) ==
    IF p \notin DOMAIN posts
    THEN Refused("post_detail", actor, p, HTTP_404_NOT_FOUND)
    ELSE IF actor = Anon \/ actor # posts[p].author
    THEN /\ posts[p].views_count < MaxViews
         /\ posts' = [posts EXCEPT ![p] = BlogPost_increment_views(@)]
         /\ resp' = Response("post_detail", actor, p, HTTP_200_OK)
         /\ UNCHANGED <<likes, ratings, comments, subs, notifs, now, inflight>>
    ELSE /\ resp' = Response("post_detail", actor, p, HTTP_200_OK)
         /\ UNCHANGED <<posts, likes, ratings, comments, subs, notifs, now, inflight>>

\* BlogPostSerializer's aggregate fields of a post, computed when read.
BlogPostSerializer_data(p) ==
    [likes_count |-> likes_count(p), average_rating |-> average_rating(p),
     ratings_count |-> ratings_count(p)]

\* GET /api/posts/my_posts/ : the caller's posts through BlogPostSerializer.
BlogPostViewSet_my_posts(actor) ==
    IF actor = Anon
    THEN /\ resp' = Response("my_posts", actor, NoPost, HTTP_401_UNAUTHORIZED)
         /\ UNCHANGED <<posts, likes, ratings, comments, subs, notifs, now, inflight>>
    ELSE /\ resp' = [op |-> "my_posts", actor |-> actor, post |-> NoPost,
                     code |-> HTTP_200_OK,
                     data |-> [p \in {x \in DOMAIN posts : posts[x].author = actor}
                                  |-> BlogPostSerializer_data(p)]]
         /\ UNCHANGED <<posts, likes, ratings, comments, subs, notifs, now, inflight>>

\* ---------------------------------------------------------------- lifecycle

\* POST /api/posts/{p}/publish/
BlogPostViewSet_publish(p, actor) ==
    LET pre == BlogPostViewSet_get_object("POST", actor, p) IN
    IF pre # 0 THEN Refused("publish", actor, p, pre)
    ELSE IF posts[p].author # actor
    THEN Refused("publish", actor, p, HTTP_403_FORBIDDEN)
    ELSE IF posts[p].status = "published"
    THEN Refused("publish", actor, p, HTTP_400_BAD_REQUEST)
    ELSE /\ posts[p].status = "draft" => now <= MaxTime
         /\ posts' = [posts EXCEPT ![p] = BlogPost_publish(@, now)]
         /\ now' = IF posts[p].status = "draft" THEN now + 1 ELSE now
         /\ BagCardinality(notifs (+) notify_subscribers(p)) <= MaxNotifs
         /\ notifs' = notifs (+) notify_subscribers(p)
         /\ resp' = Response("publish", actor, p, HTTP_200_OK)
         /\ UNCHANGED <<likes, ratings, comments, subs, inflight>>

\* POST /api/posts/{p}/unpublish/
BlogPostViewSet_unpublish(p, actor) ==
    LET pre == BlogPostViewSet_get_object("POST", actor, p) IN
    IF pre # 0 THEN Refused("unpublish", actor, p, pre)
    ELSE IF posts[p].author # actor
    THEN Refused("unpublish", actor, p, HTTP_403_FORBIDDEN)
    ELSE IF posts[p].status # "published"
    THEN Refused("unpublish", actor, p, HTTP_400_BAD_REQUEST)
    ELSE /\ posts' = [posts EXCEPT ![p] = BlogPost_unpublish(@)]
         /\ resp' = Response("unpublish", actor, p, HTTP_200_OK)
         /\ UNCHANGED <<likes, ratings, comments, subs, notifs, now, inflight>>

\* (variant) archive open to every authenticated caller
BlogPostViewSet_archive_any_user(p, actor) ==
    IF ~IsAuthenticated(actor)
    THEN Refused("archive", actor, p, HTTP_401_UNAUTHORIZED)
    ELSE IF p \notin DOMAIN posts
    THEN Refused("archive", actor, p, HTTP_404_NOT_FOUND)
    ELSE /\ posts' = [posts EXCEPT ![p] = BlogPost_archive(@)]
         /\ resp' = Response("archive", actor, p, HTTP_200_OK)
         /\ UNCHANGED <<likes, ratings, comments, subs, notifs, now, inflight>>

\* POST /api/posts/{p}/archive/
BlogPostViewSet_archive(p, actor) ==
    LET pre == BlogPostViewSet_get_object("POST", actor, p) IN
    IF pre # 0 THEN Refused("archive", actor, p, pre)
    ELSE IF posts[p].author # actor
    THEN Refused("archive", actor, p, HTTP_403_FORBIDDEN)
    ELSE /\ posts' = [posts EXCEPT ![p] = BlogPost_archive(@)]
         /\ resp' = Response("archive", actor, p, HTTP_200_OK)
         /\ UNCHANGED <<likes, ratings, comments, subs, notifs, now, inflight>>

\* --------------------------------------------------------------------- likes

\* POST /api/posts/{p}/like/ : get_or_create, then the author is told unless
\* the author is the one who liked.
BlogPostViewSet_like(p, actor) ==
    LET pre == BlogPostViewSet_get_object("POST", actor, p) IN
    IF pre # 0 THEN Refused("like", actor, p, pre)
    ELSE IF likes[<<p, actor>>] > 0
    THEN Refused("like", actor, p, HTTP_400_BAD_REQUEST)
    ELSE LET created == author_notification(p, actor, "new_like", "liked your post")
         IN /\ likes' = [likes EXCEPT ![<<p, actor>>] = @ + 1]
            /\ BagCardinality(notifs (+) created) <= MaxNotifs
            /\ notifs' = notifs (+) created
            /\ resp' = Response("like", actor, p, HTTP_201_CREATED)
            /\ UNCHANGED <<posts, ratings, comments, subs, now, inflight>>

\* POST /api/posts/{p}/unlike/
BlogPostViewSet_unlike(p, actor) ==
    LET pre == BlogPostViewSet_get_object("POST", actor, p) IN
    IF pre # 0 THEN Refused("unlike", actor, p, pre)
    ELSE IF likes[<<p, actor>>] = 0
    THEN Refused("unlike", actor, p, HTTP_400_BAD_REQUEST)
    ELSE /\ likes' = [likes EXCEPT ![<<p, actor>>] = @ - 1]
         /\ resp' = Response("unlike", actor, p, HTTP_200_OK)
         /\ UNCHANGED <<posts, ratings, comments, subs, notifs, now, inflight>>

\* POST /api/likes/ with {"post": p} : PostLikeViewSet.create, NoPost when the
\* field is missing.  The id of no BlogPost row fails the serializer.
PostLikeViewSet_create(p, actor) ==
    IF ~IsAuthenticated(actor)
    THEN Refused("like_create", actor, p, HTTP_401_UNAUTHORIZED)
    ELSE IF p \in PostIds /\ likes[<<p, actor>>] > 0
    THEN Refused("like_create", actor, p, HTTP_400_BAD_REQUEST)
    ELSE IF p \notin DOMAIN posts
    THEN Refused("like_create", actor, p, HTTP_400_BAD_REQUEST)
    ELSE /\ likes' = [likes EXCEPT ![<<p, actor>>] = @ + 1]
         /\ resp' = Response("like_create", actor, p, HTTP_201_CREATED)
         /\ UNCHANGED <<posts, ratings, comments, subs, notifs, now, inflight>>

\* DELETE /api/likes/{id}/ for the PostLike row of (p, owner):
\* ModelViewSet.destroy.  get_queryset() holds every row for a detail request
\* and the only permission is IsAuthenticated.
PostLikeViewSet_destroy(p, owner, actor) ==
    IF ~IsAuthenticated(actor)
    THEN Refused("like_destroy", actor, p, HTTP_401_UNAUTHORIZED)
    ELSE IF p \notin PostIds \/ likes[<<p, owner>>] = 0
    THEN Refused("like_destroy", actor, p, HTTP_404_NOT_FOUND)
    ELSE /\ likes' = [likes EXCEPT ![<<p, owner>>] = @ - 1]
         /\ resp' = Response("like_destroy", actor, p, HTTP_204_NO_CONTENT)
         /\ UNCHANGED <<posts, ratings, comments, subs, notifs, now, inflight>>

\* ------------------------------------------------------------------- ratings

\* MinValueValidator(1), MaxValueValidator(5) of PostRating.rating
MinRating == 1
MaxRating == 5

\* What a client sends as "rating": an integer, or something that is none
\* (a word, a fraction).  The integers are the two bounds and their neighbours.
RatingInputs ==
    {[is_int |-> TRUE, value |-> v] :
        v \in {MinRating - 1, MinRating, MaxRating, MaxRating + 1}}
        \cup {[is_int |-> FALSE, value |-> 0]}

\* (variant) the serializer without the range checks
PostRatingSerializer_validate_rating_no_range(data) == data.is_int

\* PostRatingSerializer on the rating sent: the IntegerField parses it, the
\* validators of the model field and validate_rating bound it.
PostRatingSerializer_validate_rating(data) ==
    /\ data.is_int
    /\ data.value >= MinRating /\ data.value <= MaxRating
    /\ ~(data.value < 1 \/ data.value > 5)

\* (variant) rating creation without the test for an existing rating
PostRatingViewSet_create_no_exists_check(p, actor, data) ==
    IF ~IsAuthenticated(actor)
    THEN Refused("rating_create", actor, p, HTTP_401_UNAUTHORIZED)
    ELSE IF p \notin DOMAIN posts \/ ~PostRatingSerializer_validate_rating(data)
    THEN Refused("rating_create", actor, p, HTTP_400_BAD_REQUEST)
    ELSE LET created == author_notification(p, actor, "new_rating", "rated your post")
         IN /\ ratings' = [ratings EXCEPT ![<<p, actor>>] = Append(@, data.value)]
            /\ BagCardinality(notifs (+) created) <= MaxNotifs
            /\ notifs' = notifs (+) created
            /\ resp' = Response("rating_create", actor, p, HTTP_201_CREATED)
            /\ UNCHANGED <<posts, likes, comments, subs, now, inflight>>

\* POST /api/ratings/ with {"post": p, "rating": data} : PostRatingViewSet.create
\* with perform_create.
PostRatingViewSet_create(p, actor, data) ==
    IF ~IsAuthenticated(actor)
    THEN Refused("rating_create", actor, p, HTTP_401_UNAUTHORIZED)
    ELSE IF p \in PostIds /\ ratings[<<p, actor>>] # <<>>
    THEN Refused("rating_create", actor, p, HTTP_400_BAD_REQUEST)
    ELSE IF p \notin DOMAIN posts \/ ~PostRatingSerializer_validate_rating(data)
    THEN Refused("rating_create", actor, p, HTTP_400_BAD_REQUEST)
    ELSE LET created == author_notification(p, actor, "new_rating", "rated your post")
         IN /\ ratings' = [ratings EXCEPT ![<<p, actor>>] = Append(@, data.value)]
            /\ BagCardinality(notifs (+) created) <= MaxNotifs
            /\ notifs' = notifs (+) created
            /\ resp' = Response("rating_create", actor, p, HTTP_201_CREATED)
            /\ UNCHANGED <<posts, likes, comments, subs, now, inflight>>

\* PUT, PATCH or DELETE /api/ratings/{id}/ on the PostRating row of `owner`
\* for post `p`: get_object() finds the row and checks the object permissions,
\* and IsAuthorOrReadOnly reads obj.author, an attribute a PostRating has not:
\* the AttributeError is caught by no handler, and nothing is stored.
PostRatingViewSet_update(p, owner, actor, data) ==
    IF ~IsAuthenticated(actor)
    THEN Refused("rating_update", actor, p, HTTP_401_UNAUTHORIZED)
    ELSE IF p \notin PostIds \/ ratings[<<p, owner>>] = <<>>
    THEN Refused("rating_update", actor, p, HTTP_404_NOT_FOUND)
    ELSE Refused("rating_update", actor, p, HTTP_500_INTERNAL_SERVER_ERROR)

\* ------------------------------------------------------------------ comments

\* CommentSerializer.validate_content on the length sent.
MinCommentLength == 3
validate_comment_content(content_len) == content_len >= MinCommentLength
CommentLengths == {MinCommentLength - 1, MinCommentLength}

\* (variant) comment creation that also tells the author of the comment
\* replied to
CommentViewSet_create_notifies_parent_author(p, actor, content_len, parent, approved) ==
    IF ~IsAuthenticatedOrReadOnly("POST", actor)
    THEN Refused("comment_create", actor, p, HTTP_401_UNAUTHORIZED)
    ELSE IF \/ p \notin DOMAIN posts
            \/ ~validate_comment_content(content_len)
            \/ (parent # NoComment /\ parent \notin DOMAIN comments)
    THEN Refused("comment_create", actor, p, HTTP_400_BAD_REQUEST)
    ELSE LET to_parent ==
                 IF parent # NoComment /\ comments[parent].author # actor
                 THEN SetToBag({Notification(comments[parent].author, "new_comment",
                                             p, actor, "replied to your comment")})
                 ELSE EmptyBag
             created == author_notification(p, actor, "new_comment",
                                            "commented on your post") (+) to_parent
         IN /\ Len(comments) < MaxComments
            /\ comments' = Append(comments, [post |-> p, author |-> actor,
                                             parent |-> parent,
                                             is_approved |-> approved])
            /\ BagCardinality(notifs (+) created) <= MaxNotifs
            /\ notifs' = notifs (+) created
            /\ resp' = Response("comment_create", actor, p, HTTP_201_CREATED)
            /\ UNCHANGED <<posts, likes, ratings, subs, now, inflight>>

\* POST /api/comments/ with {"post": p, "content": ..., "parent": parent,
\* "is_approved": approved} : CommentViewSet.create with perform_create.  The
\* parent is any Comment row or none.
CommentViewSet_create(p, actor, content_len, parent, approved) ==
    IF ~IsAuthenticatedOrReadOnly("POST", actor)
    THEN Refused("comment_create", actor, p, HTTP_401_UNAUTHORIZED)
    ELSE IF \/ p \notin DOMAIN posts
            \/ ~validate_comment_content(content_len)
            \/ (parent # NoComment /\ parent \notin DOMAIN comments)
    THEN Refused("comment_create", actor, p, HTTP_400_BAD_REQUEST)
    ELSE LET created == author_notification(p, actor, "new_comment",
                                            "commented on your post")
         IN /\ Len(comments) < MaxComments
            /\ comments' = Append(comments, [post |-> p, author |-> actor,
                                             parent |-> parent,
                                             is_approved |-> approved])
            /\ BagCardinality(notifs (+) created) <= MaxNotifs
            /\ notifs' = notifs (+) created
            /\ resp' = Response("comment_create", actor, p, HTTP_201_CREATED)
            /\ UNCHANGED <<posts, likes, ratings, subs, now, inflight>>

\* ------------------------------------------------------------- subscriptions

NewSubscription(subscriber, type, author, category) ==
    [subscriber |-> subscriber, subscription_type |-> type, author |-> author,
     category |-> category, is_active |-> TRUE]

\* What a client sends as author_id / category_id: the id of a row, the id of
\* no row, or nothing.
GhostUser == "u9"
GhostCategory == "c9"
AuthorIdInputs == Callers \cup {GhostUser, NoUser}
CategoryIdInputs == Categories \cup {GhostCategory, NoCategory}

\* Subscription.Meta.unique_together: a row is refused when another row has
\* the same subscriber and author, or the same subscriber and category (NULLs
\* are distinct from one another).
violates_unique_together(fresh) ==
    \E s \in subs :
        /\ s.subscriber = fresh.subscriber
        /\ \/ (fresh.author # NoUser /\ s.author = fresh.author)
           \/ (fresh.category # NoCategory /\ s.category = fresh.category)

\* (variant) get_or_create that reports every row it finds, active or not
get_or_create_subscription_no_reactivation(op, actor, found, fresh) ==
    IF found # {}
    THEN Refused(op, actor, NoPost, HTTP_400_BAD_REQUEST)
    ELSE IF violates_unique_together(fresh)
    THEN Refused(op, actor, NoPost, HTTP_500_INTERNAL_SERVER_ERROR)
    ELSE /\ subs' = subs \cup {fresh}
         /\ resp' = Response(op, actor, NoPost, HTTP_201_CREATED)
         /\ UNCHANGED <<posts, likes, ratings, comments, notifs, now, inflight>>

\* get_or_create and the reactivation of an inactive row, as subscribe_author
\* and subscribe_category both do: `found` are the rows the lookup matches,
\* `fresh` is the row to create when there is none.
get_or_create_subscription(op, actor, found, fresh) ==
    IF found # {}
    THEN LET subscription == CHOOSE s \in found : TRUE IN
         IF subscription.is_active
         THEN Refused(op, actor, NoPost, HTTP_400_BAD_REQUEST)
         ELSE /\ subs' = (subs \ {subscription})
                            \cup {[subscription EXCEPT !.is_active = TRUE]}
              /\ resp' = Response(op, actor, NoPost, HTTP_201_CREATED)
              /\ UNCHANGED <<posts, likes, ratings, comments, notifs, now, inflight>>
    ELSE IF violates_unique_together(fresh)
    THEN Refused(op, actor, NoPost, HTTP_500_INTERNAL_SERVER_ERROR)
    ELSE /\ subs' = subs \cup {fresh}
         /\ resp' = Response(op, actor, NoPost, HTTP_201_CREATED)
         /\ UNCHANGED <<posts, likes, ratings, comments, notifs, now, inflight>>

\* POST /api/subscriptions/subscribe_author/ with {"author_id": a}
SubscriptionViewSet_subscribe_author(actor, a) ==
    IF ~IsAuthenticated(actor)
    THEN Refused("subscribe_author", actor, NoPost, HTTP_401_UNAUTHORIZED)
    ELSE IF a = NoUser
    THEN Refused("subscribe_author", actor, NoPost, HTTP_400_BAD_REQUEST)
    ELSE IF a \notin Users
    THEN Refused("subscribe_author", actor, NoPost, HTTP_404_NOT_FOUND)
    ELSE IF a = actor
    THEN Refused("subscribe_author", actor, NoPost, HTTP_400_BAD_REQUEST)
    ELSE get_or_create_subscription(
             "subscribe_author", actor,
             {s \in subs : /\ s.subscriber = actor
                           /\ s.author = a
                           /\ s.subscription_type = "author"},
             NewSubscription(actor, "author", a, NoCategory))

\* POST /api/subscriptions/subscribe_category/ with {"category_id": c}
SubscriptionViewSet_subscribe_category(actor, c) ==
    IF ~IsAuthenticated(actor)
    THEN Refused("subscribe_category", actor, NoPost, HTTP_401_UNAUTHORIZED)
    ELSE IF c = NoCategory
    THEN Refused("subscribe_category", actor, NoPost, HTTP_400_BAD_REQUEST)
    ELSE IF c \notin Categories
    THEN Refused("subscribe_category", actor, NoPost, HTTP_404_NOT_FOUND)
    ELSE get_or_create_subscription(
             "subscribe_category", actor,
             {s \in subs : /\ s.subscriber = actor
                           /\ s.category = c
                           /\ s.subscription_type = "category"},
             NewSubscription(actor, "category", NoUser, c))

SUBSCRIPTION_TYPES == {"author", "category"}

\* SubscriptionSerializer.validate: the target the type names is required.
SubscriptionSerializer_validate(actor, type, a, c) ==
    /\ ~(type = "author" /\ a = NoUser)
    /\ ~(type = "category" /\ c = NoCategory)

\* POST /api/subscriptions/ with {"subscription_type": type, "author": a,
\* "category": c, "is_active": active} : the create of the ModelViewSet with
\* perform_create.  The fields of the serializer refuse a type that is no
\* choice and the id of no row; the row is saved for the caller, and the
\* unique constraints of the table refuse it with an IntegrityError.
SubscriptionViewSet_create(actor, type, a, c, active) ==
    IF ~IsAuthenticated(actor)
    THEN Refused("subscription_create", actor, NoPost, HTTP_401_UNAUTHORIZED)
    ELSE IF \/ type \notin SUBSCRIPTION_TYPES
            \/ a \notin Users \cup {NoUser}
            \/ c \notin Categories \cup {NoCategory}
            \/ ~SubscriptionSerializer_validate(actor, type, a, c)
    THEN Refused("subscription_create", actor, NoPost, HTTP_400_BAD_REQUEST)
    ELSE LET fresh == [subscriber |-> actor, subscription_type |-> type,
                       author |-> a, category |-> c, is_active |-> active]
         IN IF violates_unique_together(fresh)
            THEN Refused("subscription_create", actor, NoPost,
                         HTTP_500_INTERNAL_SERVER_ERROR)
            ELSE /\ subs' = subs \cup {fresh}
                 /\ resp' = Response("subscription_create", actor, NoPost,
                                     HTTP_201_CREATED)
                 /\ UNCHANGED <<posts, likes, ratings, comments, notifs, now, inflight>>

\* (variant) unsubscribe that deletes the row
SubscriptionViewSet_unsubscribe_deletes(s, actor) ==
    IF ~IsAuthenticated(actor)
    THEN Refused("unsubscribe", actor, NoPost, HTTP_401_UNAUTHORIZED)
    ELSE IF s.subscriber # actor
    THEN Refused("unsubscribe", actor, NoPost, HTTP_404_NOT_FOUND)
    ELSE /\ subs' = subs \ {s}
         /\ resp' = Response("unsubscribe", actor, NoPost, HTTP_200_OK)
         /\ UNCHANGED <<posts, likes, ratings, comments, notifs, now, inflight>>

\* POST /api/subscriptions/{s}/unsubscribe/ : get_queryset() holds the
\* caller's own rows only, so another user's row is not found.
SubscriptionViewSet_unsubscribe(s, actor) ==
    IF ~IsAuthenticated(actor)
    THEN Refused("unsubscribe", actor, NoPost, HTTP_401_UNAUTHORIZED)
    ELSE IF s.subscriber # actor
    THEN Refused("unsubscribe", actor, NoPost, HTTP_404_NOT_FOUND)
    ELSE /\ subs' = (subs \ {s}) \cup {[s EXCEPT !.is_active = FALSE]}
         /\ resp' = Response("unsubscribe", actor, NoPost, HTTP_200_OK)
         /\ UNCHANGED <<posts, likes, ratings, comments, notifs, now, inflight>>

\* ------------------------------------------------------------- notifications

\* NotificationViewSet.get_queryset: the caller's own rows.
NotificationViewSet_get_queryset(actor) ==
    {n \in BagToSet(notifs) : n.user = actor}

\* The number of rows of the caller with is_read = False.
unread_count(actor) ==
    SumOver(notifs, {n \in NotificationViewSet_get_queryset(actor) : ~n.is_read})

\* QuerySet.update(is_read=True) on the unread rows S of the table: every
\* row of S is stored read, the others are kept.
update_is_read(table, S) ==
    LET read(n) == [n EXCEPT !.is_read = TRUE]
        rows == (BagToSet(table) \ S) \cup {read(n) : n \in S}
        kept(m) == IF m \in BagToSet(table) \ S THEN CopiesIn(m, table) ELSE 0
        updated(m) == SumOver(table, {n \in S : read(n) = m})
    IN [m \in rows |-> kept(m) + updated(m)]

\* (variant) mark_read that flips is_read
NotificationViewSet_mark_read_toggles(n, actor) ==
    IF ~IsAuthenticated(actor)
    THEN Refused("mark_read", actor, NoPost, HTTP_401_UNAUTHORIZED)
    ELSE IF n \notin NotificationViewSet_get_queryset(actor)
    THEN Refused("mark_read", actor, NoPost, HTTP_404_NOT_FOUND)
    ELSE LET saved == [n EXCEPT !.is_read = ~n.is_read]
         IN /\ notifs' = (notifs (-) SetToBag({n})) (+) SetToBag({saved})
            /\ resp' = [op |-> "mark_read", actor |-> actor, post |-> NoPost,
                        code |-> HTTP_200_OK, data |-> saved]
            /\ UNCHANGED <<posts, likes, ratings, comments, subs, now, inflight>>

\* POST /api/notifications/{n}/mark_read/ : get_object() finds the row among
\* the caller's own; is_read = True is saved on that one row, which is
\* returned.
NotificationViewSet_mark_read(n, actor) ==
    IF ~IsAuthenticated(actor)
    THEN Refused("mark_read", actor, NoPost, HTTP_401_UNAUTHORIZED)
    ELSE IF n \notin NotificationViewSet_get_queryset(actor)
    THEN Refused("mark_read", actor, NoPost, HTTP_404_NOT_FOUND)
    ELSE LET saved == [n EXCEPT !.is_read = TRUE]
         IN /\ notifs' = (notifs (-) SetToBag({n})) (+) SetToBag({saved})
            /\ resp' = [op |-> "mark_read", actor |-> actor, post |-> NoPost,
                        code |-> HTTP_200_OK, data |-> saved]
            /\ UNCHANGED <<posts, likes, ratings, comments, subs, now, inflight>>

\* (variant) mark_all_read without the filter on the caller
NotificationViewSet_mark_all_read_every_user(actor) ==
    IF ~IsAuthenticated(actor)
    THEN Refused("mark_all_read", actor, NoPost, HTTP_401_UNAUTHORIZED)
    ELSE /\ notifs' = update_is_read(notifs, {n \in BagToSet(notifs) : ~n.is_read})
         /\ resp' = Response("mark_all_read", actor, NoPost, HTTP_200_OK)
         /\ UNCHANGED <<posts, likes, ratings, comments, subs, now, inflight>>

\* POST /api/notifications/mark_all_read/ : one UPDATE on the caller's rows
\* with is_read = False.
NotificationViewSet_mark_all_read(actor) ==
    IF ~IsAuthenticated(actor)
    THEN Refused("mark_all_read", actor, NoPost, HTTP_401_UNAUTHORIZED)
    ELSE /\ notifs' = update_is_read(notifs,
                                     {n \in NotificationViewSet_get_queryset(actor) :
                                         ~n.is_read})
         /\ resp' = Response("mark_all_read", actor, NoPost, HTTP_200_OK)
         /\ UNCHANGED <<posts, likes, ratings, comments, subs, now, inflight>>

\* GET /api/notifications/unread_count/
NotificationViewSet_unread_count(actor) ==
    IF ~IsAuthenticated(actor)
    THEN Refused("unread_count", actor, NoPost, HTTP_401_UNAUTHORIZED)
    ELSE /\ resp' = [op |-> "unread_count", actor |-> actor, post |-> NoPost,
                     code |-> HTTP_200_OK, data |-> unread_count(actor)]
         /\ UNCHANGED <<posts, likes, ratings, comments, subs, notifs, now, inflight>>

\* ------------------------------------------------------- concurrent requests
\* A handler served by a worker next to another one: the step that reads the
\* database and the step that writes, with steps of the other worker between.

\* The answer of a worker that ends its request without writing.
Ends(w, op, actor, p, code) ==
    /\ \E c \in (IF code = HTTP_401_UNAUTHORIZED
                 THEN UnauthenticatedCodes ELSE {code}) :
          resp' = Response(op, actor, p, c)
    /\ inflight' = [inflight EXCEPT ![w] = Idle]
    /\ UNCHANGED <<posts, likes, ratings, comments, subs, notifs, now>>

\* PostLikeViewSet.create, first step: the test
\* PostLike.objects.filter(post_id=..., user=...).exists() and the validation
\* of the serializer.
PostLikeViewSet_create_exists(w, p, actor) ==
    /\ inflight[w] = Idle
    /\ IF ~IsAuthenticated(actor)
       THEN Ends(w, "like_create", actor, p, HTTP_401_UNAUTHORIZED)
       ELSE IF p \in PostIds /\ likes[<<p, actor>>] > 0
       THEN Ends(w, "like_create", actor, p, HTTP_400_BAD_REQUEST)
       ELSE IF p \notin DOMAIN posts
       THEN Ends(w, "like_create", actor, p, HTTP_400_BAD_REQUEST)
       ELSE /\ inflight' = [inflight EXCEPT ![w] =
                               [op |-> "like_create", actor |-> actor, post |-> p]]
            /\ UNCHANGED <<posts, likes, ratings, comments, subs, notifs, now, resp>>

\* PostLikeViewSet.create, second step: perform_create inserts the row.
\* unique_together refuses the insert when the row is there by now; the
\* IntegrityError is not caught.
PostLikeViewSet_create_save(w) ==
    /\ inflight[w].op = "like_create"
    /\ LET p == inflight[w].post
           actor == inflight[w].actor
       IN IF likes[<<p, actor>>] > 0
          THEN Ends(w, "like_create", actor, p, HTTP_500_INTERNAL_SERVER_ERROR)
          ELSE /\ likes' = [likes EXCEPT ![<<p, actor>>] = @ + 1]
               /\ resp' = Response("like_create", actor, p, HTTP_201_CREATED)
               /\ inflight' = [inflight EXCEPT ![w] = Idle]
               /\ UNCHANGED <<posts, ratings, comments, subs, notifs, now>>

\* BlogPostViewSet.like, first step: get_object() and the get of
\* PostLike.objects.get_or_create.
BlogPostViewSet_like_get(w, p, actor) ==
    /\ inflight[w] = Idle
    /\ LET pre == BlogPostViewSet_get_object("POST", actor, p) IN
       IF pre # 0 THEN Ends(w, "like", actor, p, pre)
       ELSE IF likes[<<p, actor>>] > 0
       THEN Ends(w, "like", actor, p, HTTP_400_BAD_REQUEST)
       ELSE /\ inflight' = [inflight EXCEPT ![w] =
                               [op |-> "like", actor |-> actor, post |-> p]]
            /\ UNCHANGED <<posts, likes, ratings, comments, subs, notifs, now, resp>>

\* BlogPostViewSet.like, second step: the create of get_or_create.  When the
\* row is there by now get_or_create catches the IntegrityError, gets the
\* row and returns created = False.
BlogPostViewSet_like_create(w) ==
    /\ inflight[w].op = "like"
    /\ LET p == inflight[w].post
           actor == inflight[w].actor
           created == author_notification(p, actor, "new_like", "liked your post")
       IN IF likes[<<p, actor>>] > 0
          THEN Ends(w, "like", actor, p, HTTP_400_BAD_REQUEST)
          ELSE /\ likes' = [likes EXCEPT ![<<p, actor>>] = @ + 1]
               /\ BagCardinality(notifs (+) created) <= MaxNotifs
               /\ notifs' = notifs (+) created
               /\ resp' = Response("like", actor, p, HTTP_201_CREATED)
               /\ inflight' = [inflight EXCEPT ![w] = Idle]
               /\ UNCHANGED <<posts, ratings, comments, subs, now>>

\* A worker that has read the BlogPost row p for a request: `instance` is the
\* model instance in its memory.
Loaded(w, op, actor, p, instance) ==
    /\ inflight' = [inflight EXCEPT ![w] = [op |-> op, actor |-> actor, post |-> p,
                                            instance |-> instance]]
    /\ UNCHANGED <<posts, likes, ratings, comments, subs, notifs, now, resp>>

\* BlogPostViewSet.retrieve, first step: get_object() reads the row.
BlogPostViewSet_retrieve_get(w, p, actor) ==
    /\ inflight[w] = Idle
    /\ LET pre == BlogPostViewSet_get_object("GET", actor, p) IN
       IF pre # 0 THEN Ends(w, "retrieve", actor, p, pre)
       ELSE Loaded(w, "retrieve", actor, p, posts[p])

\* BlogPostViewSet.retrieve, second step: increment_views() adds 1 to the
\* views_count of the instance and saves that column
\* (update_fields=['views_count']).
BlogPostViewSet_retrieve_save(w) ==
    /\ inflight[w].op = "retrieve"
    /\ LET p == inflight[w].post
           instance == BlogPost_increment_views(inflight[w].instance)
       IN /\ inflight[w].instance.views_count < MaxViews
          /\ posts' = [posts EXCEPT ![p].views_count = instance.views_count]
          /\ resp' = Response("retrieve", inflight[w].actor, p, HTTP_200_OK)
          /\ inflight' = [inflight EXCEPT ![w] = Idle]
          /\ UNCHANGED <<likes, ratings, comments, subs, notifs, now>>

\* BlogPostViewSet.publish, first step: get_object() reads the row; the
\* author and status tests of the view are made on the instance.
BlogPostViewSet_publish_get(w, p, actor) ==
    /\ inflight[w] = Idle
    /\ LET pre == BlogPostViewSet_get_object("POST", actor, p) IN
       IF pre # 0 THEN Ends(w, "publish", actor, p, pre)
       ELSE IF posts[p].author # actor
       THEN Ends(w, "publish", actor, p, HTTP_403_FORBIDDEN)
       ELSE IF posts[p].status = "published"
       THEN Ends(w, "publish", actor, p, HTTP_400_BAD_REQUEST)
       ELSE Loaded(w, "publish", actor, p, posts[p])

\* BlogPostViewSet.publish, second step: BlogPost.publish() saves the whole
\* instance (self.save() without update_fields) when it was a draft, then
\* _notify_subscribers runs.
BlogPostViewSet_publish_save(w) ==
    /\ inflight[w].op = "publish"
    /\ LET p == inflight[w].post
           instance == inflight[w].instance
       IN /\ instance.status = "draft" => now <= MaxTime
          /\ posts' = IF instance.status = "draft"
                      THEN [posts EXCEPT ![p] = BlogPost_publish(instance, now)]
                      ELSE posts
          /\ now' = IF instance.status = "draft" THEN now + 1 ELSE now
          /\ BagCardinality(notifs (+) notify_subscribers(p)) <= MaxNotifs
          /\ notifs' = notifs (+) notify_subscribers(p)
          /\ resp' = Response("publish", inflight[w].actor, p, HTTP_200_OK)
          /\ inflight' = [inflight EXCEPT ![w] = Idle]
          /\ UNCHANGED <<likes, ratings, comments, subs>>

\* BlogPostViewSet.unpublish, first step.
BlogPostViewSet_unpublish_get(w, p, actor) ==
    /\ inflight[w] = Idle
    /\ LET pre == BlogPostViewSet_get_object("POST", actor, p) IN
       IF pre # 0 THEN Ends(w, "unpublish", actor, p, pre)
       ELSE IF posts[p].author # actor
       THEN Ends(w, "unpublish", actor, p, HTTP_403_FORBIDDEN)
       ELSE IF posts[p].status # "published"
       THEN Ends(w, "unpublish", actor, p, HTTP_400_BAD_REQUEST)
       ELSE Loaded(w, "unpublish", actor, p, posts[p])

\* BlogPostViewSet.unpublish, second step: BlogPost.unpublish() saves the
\* whole instance.
BlogPostViewSet_unpublish_save(w) ==
    /\ inflight[w].op = "unpublish"
    /\ LET p == inflight[w].post IN
          /\ posts' = [posts EXCEPT ![p] = BlogPost_unpublish(inflight[w].instance)]
          /\ resp' = Response("unpublish", inflight[w].actor, p, HTTP_200_OK)
          /\ inflight' = [inflight EXCEPT ![w] = Idle]
          /\ UNCHANGED <<likes, ratings, comments, subs, notifs, now>>

\* BlogPostViewSet.archive, first step.
BlogPostViewSet_archive_get(w, p, actor) ==
    /\ inflight[w] = Idle
    /\ LET pre == BlogPostViewSet_get_object("POST", actor, p) IN
       IF pre # 0 THEN Ends(w, "archive", actor, p, pre)
       ELSE IF posts[p].author # actor
       THEN Ends(w, "archive", actor, p, HTTP_403_FORBIDDEN)
       ELSE Loaded(w, "archive", actor, p, posts[p])

\* BlogPostViewSet.archive, second step: BlogPost.archive() saves the whole
\* instance.
BlogPostViewSet_archive_save(w) ==
    /\ inflight[w].op = "archive"
    /\ LET p == inflight[w].post IN
          /\ posts' = [posts EXCEPT ![p] = BlogPost_archive(inflight[w].instance)]
          /\ resp' = Response("archive", inflight[w].actor, p, HTTP_200_OK)
          /\ inflight' = [inflight EXCEPT ![w] = Idle]
          /\ UNCHANGED <<likes, ratings, comments, subs, notifs, now>>

\* post_edit_view, first step: get_object_or_404 reads the caller's post and
\* the form is assigned to the instance.
post_edit_view_get(w, p, actor, title_len, category, status) ==
    /\ inflight[w] = Idle
    /\ IF actor = Anon
       THEN Ends(w, "page_edit", actor, NoPost, HTTP_302_FOUND)
       ELSE IF p \notin DOMAIN posts \/ posts[p].author # actor
       THEN Ends(w, "page_edit", actor, p, HTTP_404_NOT_FOUND)
       ELSE Loaded(w, "page_edit", actor, p,
                   [posts[p] EXCEPT !.title_len = title_len,
                                    !.category = category,
                                    !.status = status])

\* post_edit_view, second step: post.save() writes the whole instance.
post_edit_view_save(w) ==
    /\ inflight[w].op = "page_edit"
    /\ LET p == inflight[w].post IN
          /\ posts' = [posts EXCEPT ![p] = inflight[w].instance]
          /\ resp' = Response("page_edit", inflight[w].actor, p, HTTP_302_FOUND)
          /\ inflight' = [inflight EXCEPT ![w] = Idle]
          /\ UNCHANGED <<likes, ratings, comments, subs, notifs, now>>

\* ------------------------------------------------------------ specifications

Init ==
    /\ posts = <<>>
    /\ likes = [x \in Pairs |-> 0]
    /\ ratings = [x \in Pairs |-> <<>>]
    /\ comments = <<>>
    /\ subs = {}
    /\ notifs = EmptyBag
    /\ now = 1
    /\ resp = Response("none", Anon, NoPost, 0)
    /\ inflight = [w \in Workers |-> Idle]

\* The posts a request can name: the row's id, and nothing.
PostInputs == PostIds \cup {NoPost}

\* Publishing and fan-out: the posts, their lifecycle and the subscriptions
\* that _notify_subscribers reads.
Next ==
    \/ \E a \in Actors, t \in TitleLengths, c \in ContentLengths,
          cat \in Categories \cup {NoCategory}, st \in STATUS_CHOICES :
            BlogPostViewSet_create(a, t, c, cat, st)
    \/ \E p \in PostIds, a \in Actors : BlogPostViewSet_publish(p, a)
    \/ \E p \in PostIds, a \in Actors : BlogPostViewSet_unpublish(p, a)
    \/ \E p \in PostIds, a \in Actors : BlogPostViewSet_archive(p, a)
    \/ \E a \in Actors, t \in AuthorIdInputs :
            SubscriptionViewSet_subscribe_author(a, t)
    \/ \E a \in Actors, c \in CategoryIdInputs :
            SubscriptionViewSet_subscribe_category(a, c)

Spec == Init /\ [][Next]_vars

\* The likes of a post, through both entry points.
NextLikes ==
    \/ \E a \in Actors, t \in TitleLengths, c \in ContentLengths,
          cat \in Categories \cup {NoCategory}, st \in STATUS_CHOICES :
            BlogPostViewSet_create(a, t, c, cat, st)
    \/ \E p \in PostIds, a \in Actors : BlogPostViewSet_like(p, a)
    \/ \E p \in PostIds, a \in Actors : BlogPostViewSet_unlike(p, a)
    \/ \E p \in PostInputs, a \in Actors : PostLikeViewSet_create(p, a)

SpecLikes == Init /\ [][NextLikes]_vars

\* The ratings of a post.
NextRatings ==
    \/ \E a \in Actors, t \in TitleLengths, c \in ContentLengths,
          cat \in Categories \cup {NoCategory}, st \in STATUS_CHOICES :
            BlogPostViewSet_create(a, t, c, cat, st)
    \/ \E p \in PostInputs, a \in Actors, d \in RatingInputs :
            PostRatingViewSet_create(p, a, d)
    \/ \E p \in PostInputs, o \in Callers, a \in Actors, d \in RatingInputs :
            PostRatingViewSet_update(p, o, a, d)

SpecRatings == Init /\ [][NextRatings]_vars

\* The lifecycle requests of a post among the requests that fill the tables
\* referring to it: views, likes, ratings, comments and their notifications.
NextFrame ==
    \/ \E a \in Callers, st \in STATUS_CHOICES :
            BlogPostViewSet_create(a, MinTitleLength, MinContentLength, NoCategory, st)
    \/ \E p \in PostIds, a \in Actors : BlogPostViewSet_retrieve(p, a)
    \/ \E p \in PostIds, a \in Callers : BlogPostViewSet_publish(p, a)
    \/ \E p \in PostIds, a \in Callers : BlogPostViewSet_unpublish(p, a)
    \/ \E p \in PostIds, a \in Callers : BlogPostViewSet_archive(p, a)
    \/ \E p \in PostIds, a \in Callers : PostLikeViewSet_create(p, a)
    \/ \E p \in PostIds, a \in Callers :
            PostRatingViewSet_create(p, a, [is_int |-> TRUE, value |-> MaxRating])
    \/ \E p \in PostIds, a \in Callers :
            CommentViewSet_create(p, a, MinCommentLength, NoComment, TRUE)

SpecFrame == Init /\ [][NextFrame]_vars

\* The comments of a post, top-level and replies.  The parent sent is the id
\* of a Comment row, of no row, or absent.
ParentInputs == {NoComment} \cup (1 .. MaxComments)
NextComments ==
    \/ \E a \in Callers, st \in STATUS_CHOICES :
            BlogPostViewSet_create(a, MinTitleLength, MinContentLength, NoCategory, st)
    \/ \E p \in PostInputs, a \in Actors, l \in CommentLengths,
          parent \in ParentInputs, approved \in BOOLEAN :
            CommentViewSet_create(p, a, l, parent, approved)

SpecComments == Init /\ [][NextComments]_vars

\* The notifications of two recipients and the requests that read and mark
\* them: u1's post is announced to its subscribers and commented on.
NextNotifications ==
    \/ BlogPostViewSet_create("u1", MinTitleLength, MinContentLength, NoCategory, "draft")
    \/ \E p \in PostIds : BlogPostViewSet_publish(p, "u1")
    \/ \E p \in PostIds : BlogPostViewSet_unpublish(p, "u1")
    \/ \E a \in Callers : SubscriptionViewSet_subscribe_author(a, "u1")
    \/ \E p \in PostIds, a \in Callers :
            CommentViewSet_create(p, a, MinCommentLength, NoComment, TRUE)
    \/ \E n \in BagToSet(notifs), a \in Actors : NotificationViewSet_mark_read(n, a)
    \/ \E a \in Actors : NotificationViewSet_mark_all_read(a)
    \/ \E a \in Actors : NotificationViewSet_unread_count(a)

SpecNotifications == Init /\ [][NextNotifications]_vars

\* The detail views of a post, through the API and through the page, in
\* every status of the post.
NextViews ==
    \/ \E a \in Callers, cat \in Categories \cup {NoCategory}, st \in STATUS_CHOICES :
            BlogPostViewSet_create(a, MinTitleLength, MinContentLength, cat, st)
    \/ \E p \in PostInputs, a \in Actors : BlogPostViewSet_retrieve(p, a)
    \/ \E p \in PostInputs, a \in Actors : post_detail_view(p, a)
    \/ \E p \in PostIds, a \in Callers : BlogPostViewSet_publish(p, a)
    \/ \E p \in PostIds, a \in Callers : BlogPostViewSet_unpublish(p, a)
    \/ \E p \in PostIds, a \in Callers : BlogPostViewSet_archive(p, a)

SpecViews == Init /\ [][NextViews]_vars

\* Writing posts: creation and editing through the API and through the
\* pages, and the lifecycle requests.
NextAuthoring ==
    \/ \E a \in Actors, t \in TitleLengths, c \in ContentLengths,
          cat \in Categories \cup {NoCategory}, st \in STATUS_CHOICES :
            BlogPostViewSet_create(a, t, c, cat, st)
    \/ \E a \in Actors, t \in TitleLengths, c \in ContentLengths,
          cat \in Categories \cup {NoCategory}, st \in STATUS_CHOICES :
            post_create_view(a, t, c, cat, st)
    \/ \E p \in PostInputs, a \in Actors, t \in TitleLengths, c \in ContentLengths,
          cat \in Categories \cup {NoCategory}, st \in STATUS_CHOICES :
            BlogPostViewSet_update(p, a, t, c, cat, st)
    \/ \E p \in PostInputs, a \in Actors, t \in TitleLengths, c \in ContentLengths,
          cat \in Categories \cup {NoCategory}, st \in STATUS_CHOICES :
            post_edit_view(p, a, t, c, cat, st)
    \/ \E p \in PostIds, a \in Callers : BlogPostViewSet_publish(p, a)
    \/ \E p \in PostIds, a \in Callers : BlogPostViewSet_unpublish(p, a)
    \/ \E p \in PostIds, a \in Callers : BlogPostViewSet_archive(p, a)

SpecAuthoring == Init /\ [][NextAuthoring]_vars

\* The PostLike rows and every request that stores or removes one.
NextLikeRows ==
    \/ \E a \in Callers, st \in STATUS_CHOICES :
            BlogPostViewSet_create(a, MinTitleLength, MinContentLength, NoCategory, st)
    \/ \E p \in PostIds, a \in Actors : BlogPostViewSet_like(p, a)
    \/ \E p \in PostIds, a \in Actors : BlogPostViewSet_unlike(p, a)
    \/ \E p \in PostInputs, a \in Actors : PostLikeViewSet_create(p, a)
    \/ \E p \in PostInputs, o \in Callers, a \in Actors :
            PostLikeViewSet_destroy(p, o, a)

SpecLikeRows == Init /\ [][NextLikeRows]_vars

\* Like requests served side by side, through both entry points.
NextLikeRace ==
    \/ \E a \in Callers, st \in STATUS_CHOICES :
            BlogPostViewSet_create(a, MinTitleLength, MinContentLength, NoCategory, st)
    \/ \E w \in Workers, p \in PostInputs, a \in Actors :
            PostLikeViewSet_create_exists(w, p, a)
    \/ \E w \in Workers : PostLikeViewSet_create_save(w)
    \/ \E w \in Workers, p \in PostIds, a \in Actors : BlogPostViewSet_like_get(w, p, a)
    \/ \E w \in Workers : BlogPostViewSet_like_create(w)
    \/ \E p \in PostIds, a \in Callers : BlogPostViewSet_unlike(p, a)

SpecLikeRace == Init /\ [][NextLikeRace]_vars

\* Requests on one post served side by side: detail views next to the
\* lifecycle requests and the edit page of its author u1.  The edit form is
\* sent with the category the post has.
NextViewRace ==
    \/ BlogPostViewSet_create("u1", MinTitleLength, MinContentLength, NoCategory, "draft")
    \/ \E w \in Workers, p \in PostIds, a \in Actors :
            BlogPostViewSet_retrieve_get(w, p, a)
    \/ \E w \in Workers : BlogPostViewSet_retrieve_save(w)
    \/ \E w \in Workers, p \in PostIds : BlogPostViewSet_publish_get(w, p, "u1")
    \/ \E w \in Workers : BlogPostViewSet_publish_save(w)
    \/ \E w \in Workers, p \in PostIds : BlogPostViewSet_unpublish_get(w, p, "u1")
    \/ \E w \in Workers : BlogPostViewSet_unpublish_save(w)
    \/ \E w \in Workers, p \in PostIds : BlogPostViewSet_archive_get(w, p, "u1")
    \/ \E w \in Workers : BlogPostViewSet_archive_save(w)
    \/ \E w \in Workers, p \in PostIds, st \in STATUS_CHOICES :
            post_edit_view_get(w, p, "u1", MinTitleLength, NoCategory, st)
    \/ \E w \in Workers : post_edit_view_save(w)

SpecViewRace == Init /\ [][NextViewRace]_vars

\* The subscriptions: both subscribe requests and the soft delete.
NextSubscriptions ==
    \/ \E a \in Actors, t \in AuthorIdInputs :
            SubscriptionViewSet_subscribe_author(a, t)
    \/ \E a \in Actors, c \in CategoryIdInputs :
            SubscriptionViewSet_subscribe_category(a, c)
    \/ \E s \in subs, a \in Actors : SubscriptionViewSet_unsubscribe(s, a)
    \/ \E a \in Callers, type \in SUBSCRIPTION_TYPES,
          t \in Callers \cup {NoUser}, c \in Categories \cup {NoCategory},
          active \in BOOLEAN :
            SubscriptionViewSet_create(a, type, t, c, active)

SpecSubscriptions == Init /\ [][NextSubscriptions]_vars

\* The integers of 1..5 as ratings sent.
RatingValues == {[is_int |-> TRUE, value |-> v] : v \in MinRating..MaxRating}

\* The aggregates of a post read while any registered user rates it or tries
\* to remove a rating.
NextAggregates ==
    \/ \E a \in Callers :
            BlogPostViewSet_create(a, MinTitleLength, MinContentLength,
                                   NoCategory, "published")
    \/ \E p \in PostIds, a \in Users, d \in RatingValues :
            PostRatingViewSet_create(p, a, d)
    \/ \E p \in PostIds, a \in Users :
            PostRatingViewSet_update(p, a, a, [is_int |-> TRUE, value |-> MinRating])
    \/ \E a \in Actors : BlogPostViewSet_my_posts(a)

SpecAggregates == Init /\ [][NextAggregates]_vars

\* The fan-out of the publication of a post of u1 over the subscriptions
\* there are: active and inactive ones, and the rows the generic create
\* stores.
NextFanout ==
    \/ \E cat \in Categories \cup {NoCategory} :
            BlogPostViewSet_create("u1", MinTitleLength, MinContentLength, cat, "draft")
    \/ \E p \in PostIds : BlogPostViewSet_publish(p, "u1")
    \/ \E a \in Callers : SubscriptionViewSet_subscribe_author(a, "u1")
    \/ \E a \in Callers, c \in Categories :
            SubscriptionViewSet_subscribe_category(a, c)
    \/ \E s \in subs, a \in Callers : SubscriptionViewSet_unsubscribe(s, a)
    \/ \E a \in Callers, type \in SUBSCRIPTION_TYPES,
          t \in {"u1", NoUser}, c \in Categories \cup {NoCategory} :
            SubscriptionViewSet_create(a, type, t, c, TRUE)

SpecFanout == Init /\ [][NextFanout]_vars

\* ------------------------------------------------------------------- claims

\* A step that serves request `op` of caller `a` on post `p`, a row of the
\* BlogPost table when the request arrives.
Serves(op, p, a) ==
    /\ resp'.op = op /\ resp'.post = p /\ resp'.actor = a
    /\ p \in DOMAIN posts

\* C1: a publish request by the author of a draft leaves the post published
\* with published_date set; a publish request by the author of a post that is
\* published is answered 400, leaves the post as it is (status and
\* published_date included) and creates no notification.
C1_publish_draft_then_rejected ==
    [][\A p \in PostIds, a \in Users :
          (Serves("publish", p, a) /\ posts[p].author = a) =>
              /\ posts[p].status = "draft" =>
                    /\ resp'.code = HTTP_200_OK
                    /\ posts'[p].status = "published"
                    /\ posts'[p].published_date # NoDate
              /\ posts[p].status = "published" =>
                    /\ resp'.code = HTTP_400_BAD_REQUEST
                    /\ posts' = posts
                    /\ notifs' = notifs]_vars

\* C1 happens: the author's second publish of a post that the first publish
\* stamped and announced to a subscriber was answered 400.
C1_second_publish_rejected ==
    /\ resp.op = "publish" /\ resp.code = HTTP_400_BAD_REQUEST
    /\ resp.post \in DOMAIN posts
    /\ resp.actor = posts[resp.post].author
    /\ posts[resp.post].status = "published"
    /\ posts[resp.post].published_date # NoDate
    /\ notifs # EmptyBag

\* C2: a publish request by the author of an archived post is answered with an
\* error, leaves the post archived and creates no notification.
C2_publish_archived_fails ==
    [][\A p \in PostIds, a \in Users :
          (Serves("publish", p, a) /\ posts[p].author = a
              /\ posts[p].status = "archived") =>
              /\ resp'.code >= HTTP_400_BAD_REQUEST
              /\ posts'[p].status = "archived"
              /\ notifs' = notifs]_vars

\* C4: an archive request by the author is answered 200 and leaves the post
\* archived, whatever its status was; no publish or unpublish request on an
\* archived post changes its status.
C4_archive_succeeds_and_stays ==
    [][\A p \in PostIds, a \in Actors :
          /\ (Serves("archive", p, a) /\ posts[p].author = a) =>
                /\ resp'.code = HTTP_200_OK
                /\ posts'[p].status = "archived"
          /\ ((Serves("publish", p, a) \/ Serves("unpublish", p, a))
                  /\ posts[p].status = "archived") =>
                posts'[p].status = "archived"]_vars

\* C4 happens: the author asked to publish a post that was published once and
\* archived since, and the post is archived still.
C4_archived_after_publish_request ==
    /\ resp.op = "publish" /\ resp.code = HTTP_200_OK
    /\ resp.post \in DOMAIN posts
    /\ resp.actor = posts[resp.post].author
    /\ posts[resp.post].status = "archived"
    /\ posts[resp.post].published_date # NoDate

\* C5: a publish, unpublish or archive request by a user who is not the
\* post's author is answered 403, leaves the post as it is and creates no
\* notification.
C5_not_author_forbidden ==
    [][\A p \in PostIds, a \in Users :
          ((Serves("publish", p, a) \/ Serves("unpublish", p, a)
                  \/ Serves("archive", p, a))
              /\ posts[p].author # a) =>
              /\ resp'.code = HTTP_403_FORBIDDEN
              /\ posts' = posts
              /\ notifs' = notifs]_vars

\* C5 happens: a user was refused the archive of a published post of another
\* user who has a subscriber.
C5_archive_refused ==
    /\ resp.op = "archive" /\ resp.code = HTTP_403_FORBIDDEN
    /\ resp.post \in DOMAIN posts
    /\ resp.actor \in Users \ {posts[resp.post].author}
    /\ posts[resp.post].status = "published"
    /\ \E s \in subs : s.author = posts[resp.post].author /\ s.is_active

\* C3: an unpublish request by the author of a published post is answered 200
\* and changes the status to draft and nothing else: published_date,
\* views_count, the likes, ratings, comments and notifications stay as they
\* are.  On a draft or an archived post it is answered 400 and changes nothing.
C3_unpublish_changes_status_only ==
    [][\A p \in PostIds, a \in Users :
          (Serves("unpublish", p, a) /\ posts[p].author = a) =>
              IF posts[p].status = "published"
              THEN /\ resp'.code = HTTP_200_OK
                   /\ posts' = [posts EXCEPT ![p].status = "draft"]
                   /\ UNCHANGED <<likes, ratings, comments, notifs>>
              ELSE /\ resp'.code = HTTP_400_BAD_REQUEST
                   /\ UNCHANGED <<posts, likes, ratings, comments, notifs>>]_vars

\* C3 happens: the author unpublished a post that had a publication date, a
\* view, a like, a rating, a comment and a notification.
C3_unpublished_with_history ==
    /\ resp.op = "unpublish" /\ resp.code = HTTP_200_OK
    /\ resp.post \in DOMAIN posts
    /\ resp.actor = posts[resp.post].author
    /\ posts[resp.post].status = "draft"
    /\ posts[resp.post].published_date # NoDate
    /\ posts[resp.post].views_count > 0
    /\ likes_count(resp.post) > 0
    /\ \E u \in Users : ratings[<<resp.post, u>>] # <<>>
    /\ comments # <<>>
    /\ notifs # EmptyBag

\* A step that serves a like request of caller `a` on post `p`, through the
\* post's like action or through the likes collection.
ServesLike(p, a) == Serves("like", p, a) \/ Serves("like_create", p, a)

\* C6: through either entry point, the like request of a user who has no Like
\* of the post stores one, and the like request of a user who has one is
\* answered 400 (already liked) and stores no row and no notification; there
\* is never more than one Like per post and user.
C6_like_twice_one_row ==
    /\ [](\A x \in Pairs : likes[x] <= 1)
    /\ [][\A p \in PostIds, a \in Users :
             ServesLike(p, a) =>
                 IF likes[<<p, a>>] = 0
                 THEN likes' = [likes EXCEPT ![<<p, a>>] = 1]
                 ELSE /\ resp'.code = HTTP_400_BAD_REQUEST
                      /\ likes' = likes
                      /\ notifs' = notifs]_vars

\* C7: through every entry point, the first like request of a user who is not
\* the post's author stores the Like and creates exactly one new_like
\* notification, for the author and from that user.
C7_first_like_notifies_author ==
    [][\A p \in PostIds, a \in Users :
          (ServesLike(p, a) /\ posts[p].author # a /\ likes[<<p, a>>] = 0) =>
              /\ likes' = [likes EXCEPT ![<<p, a>>] = 1]
              /\ notifs' = notifs (+) SetToBag({
                     Notification(posts[p].author, "new_like", p, a,
                                  "liked your post")})]_vars

\* C8: the like request of the post's author stores the Like when there is
\* none, and never changes the notifications.
C8_self_like_no_notification ==
    [][\A p \in PostIds, a \in Users :
          (ServesLike(p, a) /\ posts[p].author = a) =>
              /\ likes[<<p, a>>] = 0 =>
                    /\ resp'.code = HTTP_201_CREATED
                    /\ likes' = [likes EXCEPT ![<<p, a>>] = 1]
              /\ notifs' = notifs]_vars

\* C8 happens: the author liked the own post through the post's like action.
C8_author_liked_own_post ==
    /\ resp.op = "like" /\ resp.code = HTTP_201_CREATED
    /\ resp.post \in DOMAIN posts
    /\ resp.actor = posts[resp.post].author
    /\ likes[<<resp.post, resp.actor>>] = 1
    /\ notifs = EmptyBag

\* C9: the unlike request of a user who has a Like of the post removes it:
\* likes_count goes down by one and the Likes of the other users stay; the
\* unlike request of a user who has none is answered with an error and leaves
\* the Likes as they are.
C9_unlike_removes_like ==
    [][\A p \in PostIds, a \in Users :
          Serves("unlike", p, a) =>
              IF likes[<<p, a>>] > 0
              THEN /\ likes' = [likes EXCEPT ![<<p, a>>] = 0]
                   /\ likes_count(p)' = likes_count(p) - 1
              ELSE /\ resp'.code >= HTTP_400_BAD_REQUEST
                   /\ likes' = likes]_vars

\* The ratings a request may carry that are no integer of 1..5.
InvalidRatings ==
    {d \in RatingInputs : ~(d.is_int /\ d.value \in MinRating..MaxRating)}

\* C10: a rating request of a user whose rating is no integer of 1..5 is
\* answered 400, stores no PostRating and creates no notification; every
\* PostRating stored has its rating in 1..5.
C10_rating_out_of_range_rejected ==
    /\ [](\A x \in Pairs : \A i \in DOMAIN ratings[x] :
             ratings[x][i] \in MinRating..MaxRating)
    /\ [][\A p \in PostInputs, a \in Users, d \in InvalidRatings :
             PostRatingViewSet_create(p, a, d) =>
                 /\ resp'.code = HTTP_400_BAD_REQUEST
                 /\ ratings' = ratings
                 /\ notifs' = notifs]_vars

\* C10 happens: a user who has no rating of the post was answered 400 to a
\* rating request on it (the rating sent was refused), while the post has the
\* rating of another user and its notification.
C10_invalid_rating_refused ==
    /\ resp.op = "rating_create" /\ resp.code = HTTP_400_BAD_REQUEST
    /\ resp.post \in DOMAIN posts
    /\ resp.actor \in Users
    /\ ratings[<<resp.post, resp.actor>>] = <<>>
    /\ \E u \in Users : ratings[<<resp.post, u>>] # <<>>
    /\ notifs # EmptyBag

\* C11: a rating-creation request of a user who has a PostRating of the post
\* is answered 400: the ratings (the stored value included) and the
\* notifications stay as they are; no post and user ever have two PostRating
\* rows.
C11_second_rating_rejected ==
    /\ [](\A x \in Pairs : Len(ratings[x]) <= 1)
    /\ [][\A p \in PostIds, a \in Users :
             (Serves("rating_create", p, a) /\ ratings[<<p, a>>] # <<>>) =>
                 /\ resp'.code = HTTP_400_BAD_REQUEST
                 /\ ratings' = ratings
                 /\ notifs' = notifs]_vars

\* C11 happens: a user who is not the author, whose rating is stored and was
\* announced to the author, was answered 400 to a second creation request.
C11_second_rating_refused ==
    /\ resp.op = "rating_create" /\ resp.code = HTTP_400_BAD_REQUEST
    /\ resp.post \in DOMAIN posts
    /\ resp.actor \in Users \ {posts[resp.post].author}
    /\ Len(ratings[<<resp.post, resp.actor>>]) = 1
    /\ notifs # EmptyBag

\* The ratings a request may carry that are integers of 1..5.
ValidRatings == RatingInputs \ InvalidRatings

\* C12: the first valid rating of a post by a user is stored, and creates one
\* new_rating notification for the post's author from that user when the user
\* is not the author, and none when the user is the author.
C12_first_rating_notifies_author ==
    [][\A p \in PostIds, a \in Users, d \in ValidRatings :
          (PostRatingViewSet_create(p, a, d) /\ p \in DOMAIN posts
              /\ ratings[<<p, a>>] = <<>>) =>
              /\ resp'.code = HTTP_201_CREATED
              /\ ratings' = [ratings EXCEPT ![<<p, a>>] = <<d.value>>]
              /\ notifs' =
                    IF posts[p].author # a
                    THEN notifs (+) SetToBag({
                             Notification(posts[p].author, "new_rating", p, a,
                                          "rated your post")})
                    ELSE notifs]_vars

\* C12 happens: the author and another user have both rated the post, and the
\* one notification there is tells the author of the other user's rating.
C12_both_rated_one_notification ==
    /\ resp.op = "rating_create" /\ resp.code = HTTP_201_CREATED
    /\ resp.post \in DOMAIN posts
    /\ ratings[<<resp.post, posts[resp.post].author>>] # <<>>
    /\ \E u \in Users \ {posts[resp.post].author} :
          /\ ratings[<<resp.post, u>>] # <<>>
          /\ notifs = SetToBag({
                 Notification(posts[resp.post].author, "new_rating", resp.post,
                              u, "rated your post")})

\* C13: the update of a stored rating by the user who gave it, with a valid
\* rating, succeeds and leaves the one PostRating row of the post and user
\* with the new value.
C13_owner_updates_rating ==
    [][\A p \in PostIds, a \in Users, d \in ValidRatings :
          (PostRatingViewSet_update(p, a, a, d) /\ ratings[<<p, a>>] # <<>>) =>
              /\ resp'.code = HTTP_200_OK
              /\ ratings' = [ratings EXCEPT ![<<p, a>>] = <<d.value>>]]_vars

\* C14: the average_rating a read returns is 0 when the post has no rating
\* and otherwise the mean of the ratings stored at the read, to the nearest
\* hundredth; the ratings 4 and 5 give 4.5.
C14_average_rating_is_rounded_mean ==
    (resp.op = "my_posts" /\ resp.code = HTTP_200_OK) =>
        \A p \in DOMAIN posts :
            posts[p].author = resp.actor =>
                LET rows == {u \in Users : ratings[<<p, u>>] # <<>>}
                    n == Cardinality(rows)
                    total == SumOver([u \in rows |-> ratings[<<p, u>>][1]], rows)
                    avg == resp.data[p].average_rating
                IN /\ n = 0 => avg = 0
                   /\ n > 0 => /\ 2 * (avg * n - 100 * total) <= n
                               /\ 2 * (100 * total - avg * n) <= n
                   /\ (n = 2 /\ {ratings[<<p, u>>][1] : u \in rows} = {4, 5})
                         => avg = 450

\* C14 happens: a post was read whose three ratings have a mean that is no
\* whole number of hundredths.
C14_read_of_three_ratings ==
    /\ resp.op = "my_posts" /\ resp.code = HTTP_200_OK
    /\ \E p \in DOMAIN posts :
          /\ posts[p].author = resp.actor
          /\ \A u \in Users : ratings[<<p, u>>] # <<>>
          /\ (100 * ratings_total(p)) % 3 = 2
          /\ resp.data[p].average_rating * 3 = 100 * ratings_total(p) + 1

\* C15: a request of a user to subscribe to the user's own author identity,
\* through subscribe_author or through the creation of a Subscription, is
\* answered with an error and stores nothing; no Subscription has its
\* subscriber as author.
C15_no_self_subscription ==
    /\ [](\A s \in subs : s.subscriber # s.author)
    /\ [][\A a \in Callers :
             (\/ SubscriptionViewSet_subscribe_author(a, a)
              \/ \E type \in SUBSCRIPTION_TYPES,
                    c \in Categories \cup {NoCategory}, active \in BOOLEAN :
                    SubscriptionViewSet_create(a, type, a, c, active)) =>
                 /\ resp'.code >= HTTP_400_BAD_REQUEST
                 /\ subs' = subs]_vars

\* The author Subscription of subscriber `a` to author `t`, the category
\* Subscription of `a` to category `c`: the unique constraints of the table
\* leave at most one of each.
OfAuthor(a, t) ==
    {s \in subs : /\ s.subscriber = a
                  /\ s.subscription_type = "author" /\ s.author = t}
OfCategory(a, c) ==
    {s \in subs : /\ s.subscriber = a
                  /\ s.subscription_type = "category" /\ s.category = c}

\* What subscribe does when the rows `found` hold the subscriber's
\* Subscription of the target: an active one is reported (400) and nothing
\* changes, an inactive one is made active in place.
Resubscribed(found) ==
    \E s \in found :
        IF s.is_active
        THEN resp'.code = HTTP_400_BAD_REQUEST /\ subs' = subs
        ELSE /\ resp'.code = HTTP_201_CREATED
             /\ subs' = (subs \ {s}) \cup {[s EXCEPT !.is_active = TRUE]}

\* C16: a subscribe request for a target of which the subscriber has a
\* Subscription adds no row: it makes an inactive one active in place, and is
\* answered 400 with nothing changed when the one there is active.
C16_subscribe_reactivates_in_place ==
    [][/\ \A a \in Callers : \A t \in Callers \ {a} :
             (SubscriptionViewSet_subscribe_author(a, t) /\ OfAuthor(a, t) # {})
                 => Resubscribed(OfAuthor(a, t))
       /\ \A a \in Callers, c \in Categories :
             (SubscriptionViewSet_subscribe_category(a, c) /\ OfCategory(a, c) # {})
                 => Resubscribed(OfCategory(a, c))]_vars

\* A Subscription row, or the fields of a request, with exactly one target,
\* the one the type names.
OneTarget(type, a, c) ==
    \/ type = "author" /\ a # NoUser /\ c = NoCategory
    \/ type = "category" /\ c # NoCategory /\ a = NoUser

\* C17: every Subscription stored has exactly one of author and category, the
\* one its type names; a creation request that has not is answered 400 and
\* stores nothing.
C17_one_target_matching_type ==
    /\ [](\A s \in subs : OneTarget(s.subscription_type, s.author, s.category))
    /\ [][\A a \in Callers, type \in SUBSCRIPTION_TYPES,
             t \in Callers \cup {NoUser}, c \in Categories \cup {NoCategory},
             active \in BOOLEAN :
             (SubscriptionViewSet_create(a, type, t, c, active)
                 /\ ~OneTarget(type, t, c)) =>
                 /\ resp'.code = HTTP_400_BAD_REQUEST
                 /\ subs' = subs]_vars

\* C16 happens: subscribe_author made a Subscription active again.  The row
\* is known from its category, which subscribe_author never sets on a row it
\* creates.
C16_reactivated_in_place ==
    /\ resp.op = "subscribe_author" /\ resp.code = HTTP_201_CREATED
    /\ \E s \in subs :
          /\ s.subscriber = resp.actor
          /\ s.subscription_type = "author"
          /\ s.author \in Callers \ {resp.actor}
          /\ s.category # NoCategory
          /\ s.is_active

\* C18: the unsubscribe request of the subscriber is answered 200 and sets
\* is_active to false on that Subscription: the row stays with its
\* subscriber, type and targets, the number of rows is the same, and the
\* other rows, the posts and the notifications stay as they are.
C18_unsubscribe_soft_delete ==
    [][\A s \in subs :
          SubscriptionViewSet_unsubscribe(s, s.subscriber) =>
              /\ resp'.code = HTTP_200_OK
              /\ subs' = (subs \ {s}) \cup {[s EXCEPT !.is_active = FALSE]}
              /\ Cardinality(subs') = Cardinality(subs)
              /\ UNCHANGED <<posts, notifs>>]_vars

\* C18 happens: a user who was notified of a post unsubscribed, and the
\* inactive Subscription and the notification are both there.
C18_unsubscribed_after_notification ==
    /\ resp.op = "unsubscribe" /\ resp.code = HTTP_200_OK
    /\ \E s \in subs : s.subscriber = resp.actor /\ ~s.is_active
    /\ \E n \in BagToSet(notifs) : n.user = resp.actor

\* The active Subscriptions a publication of `post` is announced to.
ActiveAuthorSubscriptions(post) ==
    {s \in subs : /\ s.is_active /\ s.subscription_type = "author"
                  /\ s.author = post.author}
ActiveCategorySubscriptions(post) ==
    {s \in subs : /\ s.is_active /\ s.subscription_type = "category"
                  /\ post.category # NoCategory
                  /\ s.category = post.category}

\* C19: a publish request answered 200 adds, for every user, one new_post
\* notification per active author Subscription of the user to the post's
\* author and one per active category Subscription of the user to the post's
\* category, and no other row.
C19_fanout_one_per_subscription ==
    [][\A p \in PostIds, a \in Callers :
          (Serves("publish", p, a) /\ resp'.code = HTTP_200_OK) =>
              LET post == posts[p]
                  A == ActiveAuthorSubscriptions(post)
                  C == ActiveCategorySubscriptions(post)
                  by_author(u) == Notification(u, "new_post", p, post.author,
                                               "published a new post")
                  by_category(u) == Notification(u, "new_post", p, post.author,
                                                 "new post in category")
              IN /\ BagCardinality(notifs') =
                        BagCardinality(notifs) + Cardinality(A) + Cardinality(C)
                 /\ \A u \in Users :
                       /\ CopiesIn(by_author(u), notifs') =
                             CopiesIn(by_author(u), notifs)
                                 + Cardinality({s \in A : s.subscriber = u})
                       /\ CopiesIn(by_category(u), notifs') =
                             CopiesIn(by_category(u), notifs)
                                 + Cardinality({s \in C : s.subscriber = u})]_vars

\* C19 happens: a post was published while one user held an active author
\* Subscription and an active category Subscription for it and another user
\* an inactive one: the two notifications there are both go to the first.
C19_two_rows_same_recipient ==
    /\ resp.op = "publish" /\ resp.code = HTTP_200_OK
    /\ resp.post \in DOMAIN posts
    /\ BagCardinality(notifs) = 2
    /\ \E u \in Users :
          /\ \A n \in BagToSet(notifs) : n.user = u /\ n.post = resp.post
          /\ Cardinality(BagToSet(notifs)) = 2
          /\ \E s \in subs : s.subscriber # u /\ ~s.is_active
                                /\ s.category = posts[resp.post].category

\* C20: a comment stored on a post, top-level or reply, adds exactly one
\* new_comment notification, addressed to the post's author with the commenter
\* as sender, when the commenter is not the post's author, and leaves the
\* notifications as they are when the commenter is the post's author.
C20_comment_notifies_post_author_only ==
    [][\A p \in PostIds, a \in Callers :
          (Serves("comment_create", p, a) /\ resp'.code = HTTP_201_CREATED) =>
              /\ Len(comments') = Len(comments) + 1
              /\ comments'[Len(comments')].author = a
              /\ IF a # posts[p].author
                 THEN /\ BagCardinality(notifs') = BagCardinality(notifs) + 1
                      /\ \E n \in BagToSet(notifs') :
                            /\ CopiesIn(n, notifs') = CopiesIn(n, notifs) + 1
                            /\ n.user = posts[p].author
                            /\ n.notification_type = "new_comment"
                            /\ n.post = p
                            /\ n.sender = a
                 ELSE notifs' = notifs]_vars

\* C20 happens: the post's author replied to the comment of another user; the
\* only notification is the one of that first comment.
C20_author_replied_to_comment ==
    /\ resp.op = "comment_create" /\ resp.code = HTTP_201_CREATED
    /\ resp.post \in DOMAIN posts
    /\ Len(comments) = 2
    /\ comments[1].author # posts[resp.post].author
    /\ comments[2].author = posts[resp.post].author
    /\ comments[2].parent = 1
    /\ BagCardinality(notifs) = 1
    /\ \A n \in BagToSet(notifs) : n.user = posts[resp.post].author

\* C21: mark_read by the recipient of a notification stores is_read = true on
\* that row whatever it held before, changes no other row and leaves the
\* number of rows as it is; on a row that is read already, as after a first
\* mark_read, it changes nothing.
C21_mark_read_idempotent ==
    [][\A n \in BagToSet(notifs) :
          NotificationViewSet_mark_read(n, n.user) =>
              LET m == [n EXCEPT !.is_read = TRUE]
              IN /\ resp'.code = HTTP_200_OK
                 /\ resp'.data = m
                 /\ CopiesIn(m, notifs') >= 1
                 /\ BagCardinality(notifs') = BagCardinality(notifs)
                 /\ \A x \in (BagToSet(notifs) \cup BagToSet(notifs')) \ {n, m} :
                       CopiesIn(x, notifs') = CopiesIn(x, notifs)
                 /\ n.is_read => notifs' = notifs
                 /\ ~n.is_read => /\ CopiesIn(n, notifs') = CopiesIn(n, notifs) - 1
                                  /\ CopiesIn(m, notifs') = CopiesIn(m, notifs) + 1]_vars

\* C21 happens: a user marked a notification read while another notification
\* is unread.
C21_one_read_one_unread ==
    /\ resp.op = "mark_read" /\ resp.code = HTTP_200_OK
    /\ CopiesIn(resp.data, notifs) >= 1
    /\ \E x \in BagToSet(notifs) : ~x.is_read

\* C22: after mark_all_read by a user the user has no unread notification
\* (unread_count is 0); the request leaves the rows of every other user and
\* the number of rows as they are.
C22_mark_all_read_own_rows_only ==
    /\ []((resp.op = "mark_all_read" /\ resp.code = HTTP_200_OK) =>
              /\ unread_count(resp.actor) = 0
              /\ \A n \in BagToSet(notifs) : n.user = resp.actor => n.is_read)
    /\ [][\A a \in Callers :
            NotificationViewSet_mark_all_read(a) =>
                /\ resp'.code = HTTP_200_OK
                /\ BagCardinality(notifs') = BagCardinality(notifs)
                /\ \A x \in BagToSet(notifs) \cup BagToSet(notifs') :
                      x.user # a => CopiesIn(x, notifs') = CopiesIn(x, notifs)
                /\ \A x \in BagToSet(notifs) :
                      (x.user = a /\ x.is_read) =>
                          CopiesIn(x, notifs') >= CopiesIn(x, notifs)]_vars

\* C22 happens: a user with an unread notification marked all read, and the
\* unread notification of another user is still unread.
C22_other_user_still_unread ==
    /\ resp.op = "mark_all_read" /\ resp.code = HTTP_200_OK
    /\ \E n \in BagToSet(notifs) : n.user = resp.actor /\ n.is_read
    /\ \E n \in BagToSet(notifs) : n.user # resp.actor /\ ~n.is_read

\* C23: a detail view of a post that is served, through the API or through
\* the page and in any status of the post, adds exactly 1 to views_count when
\* the viewer is not the post's author and leaves it as it is when the viewer
\* is the author.
C23_detail_view_counts_others_only ==
    [][\A p \in PostIds, a \in Actors :
          (/\ Serves("retrieve", p, a) \/ Serves("post_detail", p, a)
           /\ resp'.code = HTTP_200_OK) =>
              posts'[p].views_count =
                  posts[p].views_count + (IF a = posts[p].author THEN 0 ELSE 1)]_vars

\* C26: no stored post has a title shorter than 5 characters: a creation
\* request with a shorter title is refused, through every entry point.
C26_no_short_title_stored ==
    \A p \in DOMAIN posts : posts[p].title_len >= MinTitleLength

\* C27: a post with status published has a published_date.
C27_published_has_date ==
    \A p \in DOMAIN posts :
        posts[p].status = "published" => posts[p].published_date # NoDate

\* C28: no notification has its recipient as sender: nobody is notified of
\* an action of their own, and an author gets no new_post notification for a
\* post of theirs.
C28_recipient_is_not_sender ==
    \A n \in BagToSet(notifs) : n.user # n.sender

\* C29: a PostLike row of (post, user) is removed only by a request of that
\* user.
C29_like_removed_by_owner_only ==
    [][\A x \in Pairs :
          likes'[x] < likes[x] => resp'.actor = x[2]]_vars

\* C30: a publish request by the author on a post that was published before
\* and unpublished publishes it again, stores the time of this publication
\* as published_date, later than the one stored, and adds one more new_post
\* notification for every active subscription to the author or the
\* category; unpublish and archive leave the notifications as they are, and
\* no request removes a notification.
C30_republish_notifies_again ==
    [][/\ \A p \in PostIds, a \in Callers :
            /\ (/\ Serves("publish", p, a) /\ resp'.code = HTTP_200_OK
                /\ posts[p].status = "draft"
                /\ posts[p].published_date # NoDate) =>
                   /\ posts'[p].status = "published"
                   /\ posts'[p].published_date = now
                   /\ posts'[p].published_date > posts[p].published_date
                   /\ \A s \in ActiveAuthorSubscriptions(posts[p]) :
                         LET n == Notification(s.subscriber, "new_post", p,
                                               posts[p].author, "published a new post")
                         IN CopiesIn(n, notifs') = CopiesIn(n, notifs) + 1
                   /\ \A s \in ActiveCategorySubscriptions(posts[p]) :
                         LET n == Notification(s.subscriber, "new_post", p,
                                               posts[p].author, "new post in category")
                         IN CopiesIn(n, notifs') = CopiesIn(n, notifs) + 1
            /\ (Serves("unpublish", p, a) \/ Serves("archive", p, a)) =>
                   notifs' = notifs
       /\ \A n \in BagToSet(notifs) : CopiesIn(n, notifs') >= CopiesIn(n, notifs)]_vars

\* C30 happens: a post was published, unpublished and published again while
\* a subscription was active: the subscriber holds two new_post notifications
\* for it and published_date is the time of the second publication.
C30_published_twice_two_notifications ==
    /\ resp.op = "publish" /\ resp.code = HTTP_200_OK
    /\ resp.post \in DOMAIN posts
    /\ posts[resp.post].status = "published"
    /\ posts[resp.post].published_date = 2
    /\ \E n \in BagToSet(notifs) :
          /\ CopiesIn(n, notifs) = 2
          /\ n.notification_type = "new_post" /\ n.post = resp.post
          /\ n.user # posts[resp.post].author

\* C25: there is never more than one Like of a post by a user, and a like
\* request that finds the Like stored by another request when it comes to
\* insert its own is answered 400 (already liked) and stores nothing, through
\* both entry points.
C25_losing_like_already_exists ==
    /\ [](\A x \in Pairs : likes[x] <= 1)
    /\ [][\A w \in Workers :
            (/\ inflight[w].op \in {"like", "like_create"}
             /\ inflight'[w] = Idle
             /\ likes[<<inflight[w].post, inflight[w].actor>>] > 0) =>
                /\ resp'.code = HTTP_400_BAD_REQUEST
                /\ likes' = likes /\ notifs' = notifs]_vars

\* C24: views_count is never negative and no step lowers the views_count
\* stored for a post, whatever requests on the post are served side by side.
C24_views_count_monotonic ==
    /\ [](\A p \in DOMAIN posts : posts[p].views_count >= 0)
    /\ [][\A p \in DOMAIN posts :
            posts'[p].views_count >= posts[p].views_count]_vars

====
